---- MODULE Spec2Model ----
(***************************************************************************)
(* A model of Tribler/Core/RemoteTorrentHandler.py: the coordinator        *)
(* (RemoteTorrentHandler), its file-transfer requesters (TftpRequester and *)
(* its two subclasses), the base pacing loop (Requester) with its          *)
(* overlay-message and magnet variants, and the reactor's scheduled calls. *)
(*                                                                         *)
(* Every method runs on the reactor thread, so one action is one handler   *)
(* run to completion, every synchronous call it makes included.  A handler *)
(* that raises keeps the assignments it made before the raise.             *)
(***************************************************************************)
EXTENDS Integers, Sequences, FiniteSets, Bags, TLC

(* ------------------------------------------------------------------ *)
(* Universes of values                                                  *)
(* ------------------------------------------------------------------ *)
Infohashes == {"h1", "h2"}
Candidates == {"c1", "c2", "c3"}
Callbacks == {"cb1"}
Subpaths == {"sp1"}
\* A thumbnail subpath inside a directory of the collection directory, and
\* that directory.
NestedSubpaths == {"d/t1"}
Directories == {"d"}
None == "None"

\* How many calls the environment makes on the public interface in one run.
MaxOps == 2
\* How many calls the environment makes in the file-transfer specification.
MaxTftpOps == 4
\* How many calls the environment makes in the specification of the repeated
\* requests for one descriptor.
MaxDupOps == 5
\* How many calls the environment makes in the magnet specification.
MaxMagnetOps == 2
\* How many calls the environment makes in the deadline specification, and
\* how far its clock runs (tenths of a second).
MaxDeadlineOps == 2
MaxTime == 1
\* The quota specification: the largest database count and the largest
\* max_num_torrents it starts from (besides the spec's worked examples), and
\* how often the recurring overflow check fires.
MaxCollected == 60
MaxQuota == 40
MaxChecks == 2
\* How many calls the environment makes in the requester-selection
\* specification.
MaxSelectOps == 3
\* How many calls the environment makes in the priority specification.
MaxClampOps == 2
\* How many calls the environment makes in the cancellation specification.
MaxFanOutOps == 3

\* Delays are in tenths of a second.
REQUEST_INTERVAL == 5
MAGNET_TIMEOUT == 50
\* sys.maxsize, the deadline of a request added without a timeout
sys_maxsize == 2147483647

\* A RequestKey: a bare infohash is <<h, None>>, a thumbnail key is <<h, subpath>>.
Key(infohash, thumbnail_subpath) == <<infohash, thumbnail_subpath>>

EmptyMap == [x \in {} |-> <<>>]
Range(s) == {s[i] : i \in DOMAIN s}
Without(f, k) == [x \in DOMAIN f \ {k} |-> f[x]]
Put(f, k, v) == [x \in DOMAIN f \cup {k} |-> IF x = k THEN v ELSE f[x]]
IsPrefix(s, t) == Len(s) <= Len(t) /\ \A i \in 1..Len(s) : s[i] = t[i]
NoDup(s) == \A i, j \in DOMAIN s : i # j => s[i] # s[j]

VARIABLES
    torrent_callbacks,          \* infohash -> set of registered descriptor callbacks
    metadata_callbacks,         \* infohash -> set of registered thumbnail callbacks
    torrent_requesters,         \* priority -> TftpTorrentRequester
    metadata_requester,         \* the TftpMetadataRequester
    torrent_message_requesters, \* priority -> TorrentMessageRequester
    magnet_requesters,          \* priority -> MagnetRequester
    files,                      \* infohashes whose <hex>.torrent is in tor_col_dir
    thumbs,                     \* thumbnail subpaths present in tor_col_dir
    torrent_db,                 \* None, or infohash -> row of the torrent database
    tasks,                      \* reactor.callLater calls not yet run, in scheduling order
    tftp_inflight,              \* bag of download_file calls the transport has not answered
    magnet_inflight,            \* retrieve_from_magnet calls the resolver has not answered
    now,                        \* time(), in tenths of a second
    platform,                   \* sys.platform
    budget,                     \* calls the environment may still make
    last,                       \* history: the handler that ran last
    ucb_calls,                  \* history: user callback invocations
    registered,                 \* history: registry entries created, per infohash and callback
    invoked,                    \* history: descriptor callback invocations, per infohash and callback
    writes,                     \* history: tdef.save calls per infohash
    transport_calls,            \* history: keys download_file was called for
    cache_hits,                 \* history: infohashes on disk when download_torrent asked for them
    stopped,                    \* shutdown() was called
    overflow,                   \* num_torrents, max_num_torrents, the database's count, the deletion chain
    base_wakes                  \* history: the wakes of the base pacing loop that dequeued

coord == <<torrent_callbacks, metadata_callbacks>>
tftp == <<torrent_requesters, metadata_requester, tftp_inflight>>
base == <<torrent_message_requesters, magnet_requesters, magnet_inflight>>
store == <<files, thumbs, torrent_db, writes>>
hist == <<ucb_calls, registered, invoked, transport_calls, cache_hits>>
ext == <<stopped, overflow, base_wakes>>
vars == <<coord, tftp, base, store, hist, tasks, now, platform, ext, budget, last>>

(* ------------------------------------------------------------------ *)
(* The reactor's scheduled calls                                        *)
(* ------------------------------------------------------------------ *)
\* schedule_task(name, task, delay_time): one pending reactor.callLater.
\* fam and prio name the requester, key and x are the call's arguments.
schedule_task(fn, fam, prio, key, x, delay) ==
    [fn |-> fn, fam |-> fam, prio |-> prio, key |-> key, x |-> x, delay |-> delay]

\* reactor.callLater asserts that the delay is not negative: for calls with a
\* negative delay the assertion fails (TRUE) and nothing is scheduled, or,
\* in a run with assertions off, the call is scheduled as overdue (FALSE).
CallLaterAsserts(calls) ==
    IF \E k \in DOMAIN calls : calls[k].delay < 0 THEN BOOLEAN ELSE {FALSE}

\* The pending calls after schedule_task was called for `calls`: all of them
\* appended, or none when the assertion failed.
Scheduled(pending, calls) ==
    {IF asserted THEN pending ELSE pending \o calls :
        asserted \in CallLaterAsserts(calls)}

\* The reactor runs due calls in order of their due time.  Of two pending calls
\* the one scheduled first runs first unless it was given the longer delay.
CanRun(i) == \A j \in 1..(i - 1) : tasks[j].delay > tasks[i].delay
RemoveAt(s, i) == SubSeq(s, 1, i - 1) \o SubSeq(s, i + 1, Len(s))

(* ------------------------------------------------------------------ *)
(* Collection directory and database                                    *)
(* ------------------------------------------------------------------ *)
\* File name arguments handed to callbacks.
NoFile == <<"None">>
TorrentPath(infohash) == <<"path", infohash>>
MetadataDir(infohash) == <<"metadir", infohash>>
HasFile == <<"True">>
Truthy(filename) == filename # NoFile

\* has_torrent as it would be if it never found the file.
has_torrent_blind(fs, infohash) == FALSE

has_torrent(fs, infohash) == infohash \in fs

has_metadata(th, thumbnail_subpath) == thumbnail_subpath \in th

\* hasTorrent / updateTorrent / addExternalTorrent of do_db: the row of the
\* infohash ends up known, with the file's name.
do_db(db, infohash) ==
    [db EXCEPT !.rows = @ \cup {infohash}, !.file_names = @ \cup {infohash}]

\* notify_possible_torrent_infohash: one _handleCallback call is scheduled if
\* the infohash is a key of torrent_callbacks.
notify_possible_torrent_infohash(cbs, infohash, torrent_file_name) ==
    IF infohash \in DOMAIN cbs
    THEN <<schedule_task("_handleCallback", "coordinator", 0, Key(infohash, None),
                         torrent_file_name, 0)>>
    ELSE <<>>

\* notify_possible_metadata_infohash: the same, for a key of metadata_callbacks,
\* and it schedules the descriptor fan-out _handleCallback.
notify_possible_metadata_infohash(mcbs, infohash) ==
    IF infohash \in DOMAIN mcbs
    THEN <<schedule_task("_handleCallback", "coordinator", 0, Key(infohash, None),
                         MetadataDir(infohash), 0)>>
    ELSE <<>>

\* _save_torrent: write the file, then (with a database) upsert and notify.
\* The result is the new directory, database, scheduled calls and whether
\* tdef.save ran.
_save_torrent(fs, db, cbs, infohash) ==
    [files |-> fs \cup {infohash},
     db    |-> IF db.open THEN do_db(db, infohash) ELSE db,
     tasks |-> IF db.open
               THEN notify_possible_torrent_infohash(cbs, infohash, TorrentPath(infohash))
               ELSE <<>>,
     wrote |-> TRUE]

\* save_torrent(tdef, callback=None) for the tdef of `infohash`.
save_torrent(fs, db, cbs, infohash) ==
    IF has_torrent(fs, infohash)
    THEN [files |-> fs, db |-> db, tasks |-> <<>>, wrote |-> FALSE]
    ELSE _save_torrent(fs, db, cbs, infohash)

(* ------------------------------------------------------------------ *)
(* The descriptor callback registry                                     *)
(* ------------------------------------------------------------------ *)
\* An entry of torrent_callbacks[infohash]: the user's callback itself
\* (download_torrent), or the lambda download_torrentmessage wraps it in,
\* `lambda ih=infohash: user_callback(ih)`, a new object on every call.
UserCallback(cb) == [kind |-> "ucb", cb |-> cb, id |-> 0, ih |-> None]
MessageLambda(cb, infohash, id) == [kind |-> "lambda", cb |-> cb, id |-> id, ih |-> infohash]

\* Calling the lambda: a positional argument binds ih, else ih keeps its default.
LambdaCall(entry, positional) ==
    IF positional = <<>> THEN <<"infohash", entry.ih>> ELSE positional[1]

\* What the user's callback receives from `ucb(torrent_file_name)`.
UserCallbackArg(entry, torrent_file_name) ==
    IF entry.kind = "lambda"
    THEN LambdaCall(entry, <<torrent_file_name>>)
    ELSE torrent_file_name

\* torrent_callbacks.setdefault(infohash, set()).add(entry)
AddCallback(cbs, infohash, entry) ==
    Put(cbs, infohash, (IF infohash \in DOMAIN cbs THEN cbs[infohash] ELSE {}) \cup {entry})

\* _handleCallback as it would be without `del self.torrent_callbacks[key]`.
DelCallbacks_kept(cbs, key) == cbs

\* del self.torrent_callbacks[key]
DelCallbacks(cbs, key) == Without(cbs, key)

(* ------------------------------------------------------------------ *)
(* TftpRequester                                                        *)
(* ------------------------------------------------------------------ *)
\* TftpRequester.__init__.  `added` and `fetched` are history: for each
\* pending key, the candidates recorded and the candidates handed to do_fetch
\* since the key entered pending_request_queue.
TftpRequester(priority) ==
    [priority              |-> priority,
     pending_request_queue |-> <<>>,
     untried_sources       |-> EmptyMap,
     tried_sources         |-> EmptyMap,
     requests_success      |-> 0,
     requests_failed       |-> 0,
     added                 |-> EmptyMap,
     fetched               |-> EmptyMap]

\* TftpRequester.has_requested
Tftp_has_requested(r, key) == key \in Range(r.pending_request_queue)

\* The branch of add_request for a key that is already pending: the candidate
\* is appended unless it is in the key's untried or tried sources.
Tftp_append_to_active(r, key, candidate) ==
    IF candidate \notin Range(r.untried_sources[key])
       /\ candidate \notin Range(r.tried_sources[key])
    THEN [r EXCEPT !.untried_sources[key] = Append(@, candidate),
                   !.added[key] = Append(@, candidate)]
    ELSE r

\* The branch of add_request for a new request.
Tftp_new_request(r, key, candidate) ==
    [r EXCEPT
       !.untried_sources = Put(@, key, Append(IF key \in DOMAIN @ THEN @[key] ELSE <<>>,
                                               candidate)),
       !.tried_sources = IF key \in DOMAIN @ THEN @ ELSE Put(@, key, <<>>),
       !.pending_request_queue = Append(@, key),
       !.added = Put(@, key, <<candidate>>),
       !.fetched = Put(@, key, <<>>)]

\* TftpRequester.add_request: the requester after the call.
Tftp_add_request(r, key, candidate) ==
    IF key \in Range(r.pending_request_queue)
    THEN Tftp_append_to_active(r, key, candidate)
    ELSE Tftp_new_request(r, key, candidate)

\* The wake a tftp requester schedules: _do_request after
\* Requester.REQUEST_INTERVAL * priority (the class attribute, on every platform).
Tftp_wake(fam, r) ==
    schedule_task("tftp._do_request", fam, r.priority, Key(None, None), NoFile,
                  REQUEST_INTERVAL * r.priority)

\* TftpRequester.add_request: the call it schedules, if the queue was empty.
Tftp_add_request_tasks(fam, r) ==
    IF Len(r.pending_request_queue) = 0 THEN <<Tftp_wake(fam, r)>> ELSE <<>>

\* _clear_current_request as it would be without `del self.tried_sources[key]`.
_clear_keep_tried(r) ==
    LET key == Head(r.pending_request_queue) IN
    [r EXCEPT !.pending_request_queue = Tail(@),
              !.untried_sources = Without(@, key),
              !.added = Without(@, key),
              !.fetched = Without(@, key)]

\* TftpRequester._clear_current_request (the queue is not empty).
_clear_current_request(r) ==
    LET key == Head(r.pending_request_queue) IN
    [r EXCEPT !.pending_request_queue = Tail(@),
              !.untried_sources = Without(@, key),
              !.tried_sources = Without(@, key),
              !.added = Without(@, key),
              !.fetched = Without(@, key)]

\* popleft of untried_sources[key] and append to tried_sources[key].
Tftp_next_candidate(r, key) ==
    [r EXCEPT !.untried_sources[key] = Tail(@),
              !.tried_sources[key] = Append(@, Head(r.untried_sources[key]))]

\* TftpRequester.do_fetch: one download_file call.  The requester is unchanged
\* but for the history of the key's fetches.
Tftp_do_fetch(r, key, candidate) ==
    IF key \in DOMAIN r.fetched
    THEN [r EXCEPT !.fetched[key] = Append(@, candidate)]
    ELSE r

\* History of one download_file call: its key, and whether download_torrent
\* had asked for the infohash while its descriptor was on disk.
Fetched(key) == [key |-> key, hit |-> key[1] \in cache_hits]

\* One download_file call in flight.
Download(fam, prio, key, candidate) ==
    [fam |-> fam, prio |-> prio, key |-> key, candidate |-> candidate]

\* The requester a tftp task or transport callback belongs to.
TftpOf(fam, prio) ==
    IF fam = "torrent" THEN torrent_requesters[prio] ELSE metadata_requester

SetTftp(fam, prio, r) ==
    IF fam = "torrent"
    THEN /\ torrent_requesters' = Put(torrent_requesters, prio, r)
         /\ UNCHANGED metadata_requester
    ELSE /\ metadata_requester' = r
         /\ UNCHANGED torrent_requesters

(* ------------------------------------------------------------------ *)
(* Requester (base pacing loop), TorrentMessageRequester, MagnetRequester*)
(* ------------------------------------------------------------------ *)
\* Requester.__init__ with the subclass's additions.
Requester(fam, priority) ==
    [priority             |-> priority,
     queue                |-> <<>>,
     download_sources     |-> EmptyMap,
     requests_made        |-> 0,
     requests_success     |-> IF fam = "message" THEN -1 ELSE 0,
     requests_failed      |-> 0,
     requests_on_disk     |-> 0,
     requested_infohashes |-> {}]

\* MagnetRequester.MAX_CONCURRENT
MAX_CONCURRENT(r) == IF r.priority <= 1 /\ platform # "darwin" THEN 3 ELSE 1

\* self.REQUEST_INTERVAL of a base requester (tenths of a second).
Base_REQUEST_INTERVAL(fam) ==
    IF platform = "darwin"
    THEN (IF fam = "message" THEN 10 ELSE 150)
    ELSE REQUEST_INTERVAL

\* Requester.has_requested
has_requested(r, infohash) == infohash \in DOMAIN r.download_sources

\* Requester.remove_request
remove_request(r, infohash) ==
    [r EXCEPT !.download_sources = Without(@, infohash)]

\* Requester.add_request: the requester after the call; deadline is
\* sys.maxsize, or timeout + time().
add_request(r, infohash, candidate, deadline) ==
    [r EXCEPT
       !.download_sources = Put(@, infohash,
            (IF infohash \in DOMAIN @ THEN @[infohash] ELSE {}) \cup {candidate}),
       !.queue = Append(@, <<infohash, deadline>>)]

\* Requester.add_request: the wake it schedules if the queue was empty.
add_request_tasks(fam, r) ==
    IF Len(r.queue) = 0
    THEN <<schedule_task("requester._do_request", fam, r.priority, Key(None, None),
                         NoFile, REQUEST_INTERVAL * r.priority)>>
    ELSE <<>>

\* can_request as it would be without the concurrency test.
can_request_always(fam, r) == TRUE

\* can_request
can_request(fam, r) ==
    IF fam = "magnet"
    THEN Cardinality(r.requested_infohashes) < MAX_CONCURRENT(r)
    ELSE TRUE

\* The deadline test as it would be if no deadline ever passed.
expired_never(t, timeout) == FALSE

\* `time() > timeout`
expired(t, timeout) == t > timeout

\* The while loop of Requester._do_request: entries are taken from the queue
\* until one is live (not past its deadline, still in download_sources).  The
\* result is the requester after the loop, the live infohash with its deadline
\* (None when get_nowait raised Queue.Empty) and the infohashes dropped as
\* past their deadline.
RECURSIVE dequeue(_, _)
dequeue(r, t) ==
    IF r.queue = <<>>
    THEN [r |-> r, infohash |-> None, timeout |-> 0, dropped |-> {}]
    ELSE LET infohash == Head(r.queue)[1]
             timeout == Head(r.queue)[2]
             r1 == [r EXCEPT !.queue = Tail(@)]
         IN IF expired(t, timeout)
            THEN LET d == dequeue(IF has_requested(r1, infohash)
                                  THEN remove_request(r1, infohash) ELSE r1, t)
                 IN [d EXCEPT !.dropped = @ \cup {infohash}]
            ELSE IF has_requested(r1, infohash)
                 THEN [r |-> r1, infohash |-> infohash, timeout |-> timeout,
                       dropped |-> {}]
                 ELSE dequeue(r1, t)

(* ------------------------------------------------------------------ *)
(* Initial state: after __init__ and register()                         *)
(* ------------------------------------------------------------------ *)
Zero == [h \in Infohashes |-> [cb \in Callbacks |-> 0]]
Min(a, b) == IF a < b THEN a ELSE b
Max(a, b) == IF a > b THEN a ELSE b

\* int(x / 20) for an integer x: int() truncates towards zero.
IntOfTwentieths(x) == IF x >= 0 THEN x \div 20 ELSE -((-x) \div 20)

\* int(self.num_torrents - self.max_num_torrents * 0.95)
num_delete(num_torrents, max_num_torrents) ==
    IntOfTwentieths(20 * num_torrents - 19 * max_num_torrents)

\* max(25, num_delete / 180), `/` being integer division
deletions_per_step(n) == Max(25, n \div 180)

\* A step as it would be if it always deleted a whole chunk.
to_remove_whole_chunk(n, per_step) == per_step

\* to_remove = min(num_delete, deletions_per_step)
to_remove(n, per_step) == Min(n, per_step)

\* clean_until_done(num_delete, deletions_per_step): the quota state and the
\* scheduled calls after it.  freeSpace(n) removes n descriptors from the
\* database.
clean_until_done(o, n, per_step) ==
    IF n > 0
    THEN [overflow |-> [o EXCEPT !.collected = Max(0, @ - to_remove(n, per_step)),
                                 !.calls = Append(@, to_remove(n, per_step))],
          tasks |-> <<schedule_task("clean_until_done", "coordinator", 0, Key(None, None),
                                    <<n - to_remove(n, per_step), per_step>>, 50)>>]
    ELSE [overflow |-> o, tasks |-> <<>>]

\* torrent_overflow_check on the quota state o: the count is read from the
\* database and, above the quota, the deletion chain is started.  `calls` is
\* history: the arguments of the freeSpace calls since the last check.
torrent_overflow_check(o) ==
    LET num == o.collected
        o1 == [o EXCEPT !.num_torrents = num, !.calls = <<>>]
        n == num_delete(num, o.max_num_torrents)
    IN IF num > o.max_num_torrents
       THEN clean_until_done(o1, n, deletions_per_step(n))
       ELSE [overflow |-> o1, tasks |-> <<>>]

\* register(dispersy, session, max_num_torrents) with a database that holds
\* `collected` descriptors: __check_overflow starts the LoopingCall with
\* now=True, so the first torrent_overflow_check runs inside register().  The
\* result is the quota state and the scheduled calls after register().
\* `to_delete` and `deletions_per_step` are history: what the last check that
\* the LoopingCall fired after register() computed, 0 when it started no chain.
check_overflow(collected, max_num_torrents) ==
    torrent_overflow_check(
        [num_torrents |-> 0, max_num_torrents |-> max_num_torrents,
         collected |-> collected, to_delete |-> 0, deletions_per_step |-> 0,
         calls |-> <<>>])

\* The quota state after register().
Quota(collected, max_num_torrents) ==
    check_overflow(collected, max_num_torrents).overflow
\* The handler that ran last, the infohash it was about and, if it called
\* save_torrent, whether the descriptor was then "present" or "absent".
Step(op, infohash) == [op |-> op, h |-> infohash, save |-> "none"]
\* A download_torrent call with a candidate, with the priority it was given.
StepPriority(op, infohash, priority) ==
    [op |-> op, h |-> infohash, save |-> "none", priority |-> priority]
StepSave(op, infohash, present) ==
    [op |-> op, h |-> infohash, save |-> IF present THEN "present" ELSE "absent"]

\* The part of the initial state that does not depend on the session's
\* configuration.
InitCommon ==
    /\ torrent_callbacks = EmptyMap
    /\ metadata_callbacks = EmptyMap
    /\ torrent_requesters = EmptyMap
    /\ metadata_requester = TftpRequester(0)
    /\ torrent_message_requesters = EmptyMap
    /\ thumbs = {}
    /\ tftp_inflight = EmptyBag
    /\ magnet_inflight = {}
    /\ now = 0
    /\ last = Step("register", None)
    /\ ucb_calls = {}
    /\ registered = Zero
    /\ invoked = Zero
    /\ writes = [h \in Infohashes |-> 0]
    /\ transport_calls = {}
    /\ cache_hits = {}
    /\ stopped = FALSE
    /\ base_wakes = {}

\* register() with megacache and DHT collecting on: the collection directory
\* is empty or holds one descriptor, with its database row.
Init ==
    /\ InitCommon
    /\ budget = MaxOps
    /\ platform = "linux"
    /\ overflow = Quota(0, 0)
    /\ tasks = check_overflow(0, 0).tasks
    /\ files \in {{}, {"h1"}}
    /\ torrent_db = [open |-> TRUE, rows |-> files, file_names |-> files]
    /\ magnet_requesters = [p \in {0, 1} |-> Requester("magnet", p)]

\* register() in any configuration: the collection directory holds any set of
\* descriptors, each with its database row; megacache and DHT collecting are
\* on or off.
InitWide ==
    /\ InitCommon
    /\ budget = MaxOps
    /\ platform = "linux"
    /\ overflow = Quota(0, 0)
    /\ tasks = check_overflow(0, 0).tasks
    /\ files \in SUBSET Infohashes
    /\ \E megacache \in BOOLEAN :
         torrent_db = [open |-> megacache, rows |-> files, file_names |-> files]
    /\ \E dht \in BOOLEAN :
         magnet_requesters = IF dht
                             THEN [p \in {0, 1} |-> Requester("magnet", p)]
                             ELSE EmptyMap

(* ------------------------------------------------------------------ *)
(* RemoteTorrentHandler: the public interface                           *)
(* ------------------------------------------------------------------ *)
\* The selection as it would be without the scan for a tracking requester.
SelectRequester_unscanned(requesters, infohash, priority) == priority

\* The loop of download_torrent over range(0, priority + 1): the priority of
\* the lowest requester that has the infohash scheduled, else `priority`.
SelectRequester(requesters, infohash, priority) ==
    LET tracking == {i \in 0..priority :
                        /\ i \in DOMAIN requesters
                        /\ Tftp_has_requested(requesters[i], Key(infohash, None))}
    IN IF tracking # {}
       THEN CHOOSE i \in tracking : \A j \in tracking : i <= j
       ELSE priority

\* Count one more registry entry created for (infohash, cb).
Count(f, infohash, cb, n) == [f EXCEPT ![infohash][cb] = @ + n]

\* download_torrent without a candidate: the DHT path.
DownloadTorrentMagnet(infohash, user_callback, priority) ==
    LET prio == Min(priority, 1) IN
    /\ budget > 0
    /\ budget' = budget - 1
    /\ tasks' \in Scheduled(tasks, <<schedule_task("magnet_request", "magnet", prio,
                                                     Key(infohash, None), NoFile,
                                                     MAGNET_TIMEOUT * prio)>>)
    /\ last' = Step(IF user_callback # None
                    THEN "download_torrent(None, cb)" ELSE "download_torrent(None)",
                    infohash)
    /\ UNCHANGED <<coord, tftp, base, store, hist, now, platform, ext>>

\* download_torrent with a candidate: the file-transfer path.
DownloadTorrent(candidate, infohash, user_callback, priority) ==
    LET prio == Min(priority, 1)
        p == SelectRequester(torrent_requesters, infohash, prio)
        r == IF p \in DOMAIN torrent_requesters
             THEN torrent_requesters[p] ELSE TftpRequester(p)
        entry == UserCallback(user_callback)
        fresh == user_callback # None
                 /\ (infohash \notin DOMAIN torrent_callbacks
                     \/ entry \notin torrent_callbacks[infohash])
    IN
    /\ budget > 0
    /\ budget' = budget - 1
    /\ torrent_callbacks' = IF user_callback # None
                            THEN AddCallback(torrent_callbacks, infohash, entry)
                            ELSE torrent_callbacks
    /\ registered' = IF fresh THEN Count(registered, infohash, user_callback, 1)
                     ELSE registered
    /\ torrent_requesters' = Put(torrent_requesters, p,
                                 Tftp_add_request(r, Key(infohash, None), candidate))
    /\ tasks' \in Scheduled(tasks, Tftp_add_request_tasks("torrent", r))
    /\ cache_hits' = IF has_torrent(files, infohash)
                     THEN cache_hits \cup {infohash} ELSE cache_hits
    /\ last' = StepPriority(
                  IF Tftp_has_requested(r, Key(infohash, None))
                     /\ candidate \in Range(r.untried_sources[Key(infohash, None)])
                                        \cup Range(r.tried_sources[Key(infohash, None)])
                  THEN "download_torrent(known candidate)" ELSE "download_torrent",
                  infohash, priority)
    /\ UNCHANGED <<metadata_callbacks, metadata_requester, tftp_inflight, base, store,
                   ucb_calls, invoked, transport_calls, now, platform, ext>>

\* download_torrentmessage
DownloadTorrentMessage(candidate, infohash, user_callback, priority) ==
    LET r == IF priority \in DOMAIN torrent_message_requesters
             THEN torrent_message_requesters[priority]
             ELSE Requester("message", priority)
        entry == MessageLambda(user_callback, infohash, budget)
    IN
    /\ budget > 0
    /\ budget' = budget - 1
    /\ torrent_callbacks' = IF user_callback # None
                            THEN AddCallback(torrent_callbacks, infohash, entry)
                            ELSE torrent_callbacks
    /\ registered' = IF user_callback # None
                     THEN Count(registered, infohash, user_callback, 1)
                     ELSE registered
    /\ torrent_message_requesters' =
           Put(torrent_message_requesters, priority,
               add_request(r, infohash, candidate, sys_maxsize))
    /\ tasks' \in Scheduled(tasks, add_request_tasks("message", r))
    /\ last' = Step("download_torrentmessage", infohash)
    /\ UNCHANGED <<metadata_callbacks, tftp, magnet_requesters, magnet_inflight, store,
                   ucb_calls, invoked, transport_calls, cache_hits, now, platform, ext>>

\* download_metadata
DownloadMetadata(candidate, infohash, thumbnail_subpath, usercallback) ==
    /\ budget > 0
    /\ budget' = budget - 1
    /\ last' = Step("download_metadata", infohash)
    /\ IF has_metadata(thumbs, thumbnail_subpath)
       THEN UNCHANGED <<coord, tftp, tasks>>
       ELSE /\ metadata_callbacks' =
                  IF usercallback # None
                  THEN AddCallback(metadata_callbacks, infohash, usercallback)
                  ELSE metadata_callbacks
            /\ metadata_requester' =
                  Tftp_add_request(metadata_requester,
                                   Key(infohash, thumbnail_subpath), candidate)
            /\ tasks' = tasks \o Tftp_add_request_tasks("metadata", metadata_requester)
            /\ UNCHANGED <<torrent_callbacks, torrent_requesters, tftp_inflight>>
    /\ UNCHANGED <<base, store, hist, now, platform, ext>>

\* os.path.dirname of a subpath: "" for a name directly in the collection
\* directory.
dirname(path) == IF path \in NestedSubpaths THEN "d" ELSE ""

\* delete_metadata: a path that is a file is unlinked; a path that exists and
\* is no file is a directory and shutil.rmtree removes it with every file in
\* it; a path that does not exist is only logged.
DeleteMetadata(infohash, thumbnail_subpath) ==
    /\ budget > 0
    /\ budget' = budget - 1
    /\ thumbs' = IF thumbnail_subpath \in thumbs
                 THEN thumbs \ {thumbnail_subpath}
                 ELSE {path \in thumbs : dirname(path) # thumbnail_subpath}
    /\ last' = Step("delete_metadata", infohash)
    /\ UNCHANGED <<coord, tftp, base, files, torrent_db, writes, hist, tasks, now,
                   platform, ext>>

\* notify_possible_torrent_infohash(infohash) called by the overlay when a
\* descriptor arrived out of band (no file name).
NotifyPossibleTorrentInfohash(infohash) ==
    /\ budget > 0
    /\ budget' = budget - 1
    /\ tasks' = tasks \o notify_possible_torrent_infohash(torrent_callbacks, infohash, NoFile)
    /\ last' = Step("notify_possible_torrent_infohash", infohash)
    /\ UNCHANGED <<coord, tftp, base, store, hist, now, platform, ext>>

\* The effect of one save_torrent call on the directory, the database and the
\* scheduled calls.
Saved(infohash, scheduled) ==
    LET st == save_torrent(files, torrent_db, torrent_callbacks, infohash) IN
    /\ files' = st.files
    /\ torrent_db' = st.db
    /\ writes' = IF st.wrote THEN [writes EXCEPT ![infohash] = @ + 1] ELSE writes
    /\ tasks' = scheduled \o st.tasks

\* save_torrent(tdef) called from outside the requesters.
SaveTorrent(infohash) ==
    /\ budget > 0
    /\ budget' = budget - 1
    /\ Saved(infohash, tasks)
    /\ last' = StepSave("save_torrent", infohash, has_torrent(files, infohash))
    /\ UNCHANGED <<coord, tftp, base, thumbs, hist, now, platform, ext>>

(* ------------------------------------------------------------------ *)
(* TftpRequester: scheduled calls and transport callbacks               *)
(* ------------------------------------------------------------------ *)
\* The scheduled TftpRequester._do_request.  An empty queue returns; an empty
\* untried deque at the head raises IndexError before anything is assigned.
TftpDoRequest(i) ==
    LET t == tasks[i]
        r == TftpOf(t.fam, t.prio)
        key == Head(r.pending_request_queue)
        candidate == Head(r.untried_sources[key])
    IN
    /\ t.fn = "tftp._do_request"
    /\ CanRun(i)
    /\ tasks' = RemoveAt(tasks, i)
    /\ IF r.pending_request_queue = <<>>
       THEN /\ last' = Step("_do_request(empty)", None)
            /\ UNCHANGED <<tftp, transport_calls>>
       ELSE IF r.untried_sources[key] = <<>>
       THEN /\ last' = Step("_do_request(IndexError)", key[1])
            /\ UNCHANGED <<tftp, transport_calls>>
       ELSE /\ SetTftp(t.fam, t.prio,
                       Tftp_do_fetch(Tftp_next_candidate(r, key), key, candidate))
            /\ tftp_inflight' = tftp_inflight (+)
                                  SetToBag({Download(t.fam, t.prio, key, candidate)})
            /\ transport_calls' = transport_calls \cup {Fetched(key)}
            /\ last' = Step("_do_request", key[1])
    /\ UNCHANGED <<coord, base, store, ucb_calls, registered, invoked, cache_hits,
                   now, platform, ext, budget>>

\* The do_fetch the failure callback scheduled for the next candidate.
TftpFailover(i) ==
    LET t == tasks[i]
        r == TftpOf(t.fam, t.prio)
        candidate == t.x[2]
    IN
    /\ t.fn = "tftp.do_fetch"
    /\ CanRun(i)
    /\ tasks' = RemoveAt(tasks, i)
    /\ SetTftp(t.fam, t.prio, Tftp_do_fetch(r, t.key, candidate))
    /\ tftp_inflight' = tftp_inflight (+)
                          SetToBag({Download(t.fam, t.prio, t.key, candidate)})
    /\ transport_calls' = transport_calls \cup {Fetched(t.key)}
    /\ last' = Step("do_fetch", t.key[1])
    /\ UNCHANGED <<coord, base, store, ucb_calls, registered, invoked, cache_hits,
                   now, platform, ext, budget>>

\* save_metadata: write the thumbnail, notify, then call the thumbnail
\* callbacks of the infohash (a KeyError if it has none).
save_metadata_calls(mcbs, infohash) ==
    IF infohash \in DOMAIN mcbs
    THEN {[key |-> infohash, cb |-> cb, kind |-> "thumbnail",
           filename |-> NoFile, arg |-> <<"infohash", infohash>>] : cb \in mcbs[infohash]}
    ELSE {}

\* The thumbnail registry after save_metadata.
save_metadata_registry(mcbs, infohash) == mcbs

\* _tftp_success_callback of TftpTorrentRequester and TftpMetadataRequester.
\* _clear_current_request raises IndexError on an empty queue, after the
\* counter was incremented.  parse_ok: TorrentDef.load_from_memory returned.
\* When callLater's assertion fails on the wake, the error leaves the callback
\* before the subclass saves anything.
TftpSuccess(f, parse_ok) ==
    LET r == TftpOf(f.fam, f.prio)
        r1 == [r EXCEPT !.requests_success = @ + 1]
        r2 == _clear_current_request(r1)
        infohash == f.key[1]
        woken == Append(tasks, Tftp_wake(f.fam, r2))
    IN
    /\ BagIn(f, tftp_inflight)
    /\ tftp_inflight' = tftp_inflight (-) SetToBag({f})
    /\ IF r.pending_request_queue = <<>>
       THEN /\ SetTftp(f.fam, f.prio, r1)
            /\ last' = Step("_tftp_success_callback(IndexError)", infohash)
            /\ UNCHANGED <<metadata_callbacks, store, tasks, ucb_calls>>
       ELSE /\ SetTftp(f.fam, f.prio, r2)
            /\ \E asserted \in CallLaterAsserts(<<Tftp_wake(f.fam, r2)>>) :
               IF asserted
               THEN /\ last' = Step("_tftp_success_callback(AssertionError)", infohash)
                    /\ UNCHANGED <<metadata_callbacks, store, tasks, ucb_calls>>
               ELSE IF f.fam = "torrent"
               THEN /\ IF parse_ok
                       THEN /\ Saved(infohash, woken)
                            /\ last' = StepSave("_tftp_success_callback", infohash,
                                                has_torrent(files, infohash))
                       ELSE /\ tasks' = woken
                            /\ last' = Step("_tftp_success_callback(parse error)", infohash)
                            /\ UNCHANGED <<files, torrent_db, writes>>
                    /\ UNCHANGED <<metadata_callbacks, thumbs, ucb_calls>>
               ELSE /\ parse_ok
                    /\ thumbs' = thumbs \cup {f.key[2]}
                    /\ tasks' = woken \o notify_possible_metadata_infohash(
                                             metadata_callbacks, infohash)
                    /\ ucb_calls' = ucb_calls \cup
                                      save_metadata_calls(metadata_callbacks, infohash)
                    /\ metadata_callbacks' =
                           save_metadata_registry(metadata_callbacks, infohash)
                    /\ last' = Step("save_metadata", infohash)
                    /\ UNCHANGED <<files, torrent_db, writes>>
    /\ UNCHANGED <<torrent_callbacks, base, registered, invoked, transport_calls,
                   cache_hits, now, platform, ext, budget>>

\* _tftp_failure_callback.  extra_info[u"infohash"] is a bare infohash whatever
\* the key was; untried_sources[infohash] raises KeyError if it is no key.
TftpFailure(f) ==
    LET r == TftpOf(f.fam, f.prio)
        r1 == [r EXCEPT !.requests_failed = @ + 1]
        infohash == Key(f.key[1], None)
        candidate == Head(r.untried_sources[infohash])
        r2 == _clear_current_request(r1)
    IN
    /\ BagIn(f, tftp_inflight)
    /\ tftp_inflight' = tftp_inflight (-) SetToBag({f})
    /\ IF infohash \notin DOMAIN r.untried_sources
       THEN /\ SetTftp(f.fam, f.prio, r1)
            /\ tasks' = tasks
            /\ last' = Step("_tftp_failure_callback(KeyError)", f.key[1])
       ELSE IF r.untried_sources[infohash] # <<>>
       THEN /\ SetTftp(f.fam, f.prio, Tftp_next_candidate(r1, infohash))
            /\ tasks' = Append(tasks,
                               schedule_task("tftp.do_fetch", f.fam, f.prio, infohash,
                                             <<"candidate", candidate>>, 0))
            /\ last' = Step("_tftp_failure_callback(next)", f.key[1])
       ELSE /\ SetTftp(f.fam, f.prio, r2)
            /\ tasks' \in Scheduled(tasks, <<Tftp_wake(f.fam, r2)>>)
            /\ last' = Step("_tftp_failure_callback(clear)", f.key[1])
    /\ UNCHANGED <<coord, base, store, hist, now, platform, ext, budget>>

(* ------------------------------------------------------------------ *)
(* Requester: scheduled calls and resolver callbacks                    *)
(* ------------------------------------------------------------------ *)
BaseOf(fam, prio) ==
    IF fam = "magnet" THEN magnet_requesters[prio] ELSE torrent_message_requesters[prio]

SetBase(fam, prio, r) ==
    IF fam = "magnet"
    THEN /\ magnet_requesters' = Put(magnet_requesters, prio, r)
         /\ UNCHANGED torrent_message_requesters
    ELSE /\ torrent_message_requesters' = Put(torrent_message_requesters, prio, r)
         /\ UNCHANGED magnet_requesters

\* The lambda download_torrent scheduled: requester.add_request(ih, None), an
\* AttributeError when magnet_requesters.get(priority) returned None.
MagnetRequest(i) ==
    LET t == tasks[i]
        r == magnet_requesters[t.prio]
    IN
    /\ t.fn = "magnet_request"
    /\ CanRun(i)
    /\ IF t.prio \in DOMAIN magnet_requesters
       THEN /\ magnet_requesters' =
                  Put(magnet_requesters, t.prio,
                      add_request(r, t.key[1], None, sys_maxsize))
            /\ tasks' = RemoveAt(tasks, i) \o add_request_tasks("magnet", r)
            /\ last' = Step("magnet_request", t.key[1])
       ELSE /\ tasks' = RemoveAt(tasks, i)
            /\ last' = Step("magnet_request(AttributeError)", t.key[1])
            /\ UNCHANGED magnet_requesters
    /\ UNCHANGED <<coord, tftp, torrent_message_requesters, magnet_inflight, store, hist,
                   now, platform, ext, budget>>

\* MagnetRequester.do_fetch with _do_fetch: the requester after the call, the
\* value returned, the calls scheduled and whether the resolver was asked.
Magnet_do_fetch(r, infohash, fs, cbs) ==
    IF infohash \in r.requested_infohashes
    THEN [r |-> r, made |-> FALSE, tasks |-> <<>>, resolve |-> FALSE]
    ELSE IF has_torrent(fs, infohash)
    THEN [r |-> [r EXCEPT !.requests_on_disk = @ + 1],
          made |-> TRUE,
          tasks |-> notify_possible_torrent_infohash(cbs, infohash, HasFile),
          resolve |-> FALSE]
    ELSE [r |-> [r EXCEPT !.requested_infohashes = @ \cup {infohash}],
          made |-> TRUE, tasks |-> <<>>, resolve |-> TRUE]

\* TorrentMessageRequester.do_fetch: one overlay request per candidate.
Message_do_fetch(r, infohash, candidates) ==
    [r |-> r, made |-> candidates # {}, tasks |-> <<>>, resolve |-> FALSE]

\* History of one wake that dequeued: the infohash it fetched (None when the
\* queue ran empty) with its deadline, the time, the infohashes it dropped as
\* past their deadline, the infohashes tracked afterwards and the infohashes
\* it scheduled a callback fan-out for.
Wake(fam, prio, d, r_after, scheduled) ==
    [fam |-> fam, prio |-> prio, h |-> d.infohash, deadline |-> d.timeout, at |-> now,
     dropped |-> d.dropped, tracked |-> DOMAIN r_after.download_sources,
     notified |-> {scheduled[k].key[1] : k \in DOMAIN scheduled},
     raised |-> FALSE]

\* do_fetch can raise where it calls out of this module: the overlay request
\* made for each candidate, and the tracker lookup and the resolver call made
\* for an infohash that is neither marked in flight nor on disk.
do_fetch_can_raise(fam, r, infohash, candidates, fs) ==
    IF fam = "magnet"
    THEN infohash \notin r.requested_infohashes /\ ~has_torrent(fs, infohash)
    ELSE candidates # {}

\* do_fetch when such a call raises: the magnet requester has marked the
\* infohash in flight already, nothing is returned and no resolver call is
\* left behind.
do_fetch_raised(fam, r, infohash) ==
    [r |-> IF fam = "magnet"
           THEN [r EXCEPT !.requested_infohashes = @ \cup {infohash}] ELSE r,
     made |-> FALSE, tasks |-> <<>>, resolve |-> FALSE]

\* The scheduled Requester._do_request.  When can_request() is false the name
\* of the next wake reads the local `infohash` before it was assigned and the
\* wake raises; when the queue runs empty get_nowait raises Queue.Empty, which
\* is caught, and nothing is scheduled.  `raises` says whether do_fetch raises
\* in this wake: the bare except catches it and made_request stays False.
_do_request(i, raises) ==
    LET t == tasks[i]
        r == BaseOf(t.fam, t.prio)
        d == dequeue(r, now)
        infohash == d.infohash
        candidates == d.r.download_sources[infohash]
        r1 == remove_request(d.r, infohash)
        f == IF raises
             THEN do_fetch_raised(t.fam, r1, infohash)
             ELSE IF t.fam = "magnet"
             THEN Magnet_do_fetch(r1, infohash, files, torrent_callbacks)
             ELSE Message_do_fetch(r1, infohash, candidates)
        r2 == IF f.made THEN [f.r EXCEPT !.requests_made = @ + 1] ELSE f.r
        delay == IF f.made \/ ~can_request(t.fam, r2)
                 THEN Base_REQUEST_INTERVAL(t.fam) * r.priority ELSE 0
    IN
    /\ t.fn = "requester._do_request"
    /\ CanRun(i)
    /\ raises => /\ can_request(t.fam, r)
                 /\ infohash # None
                 /\ do_fetch_can_raise(t.fam, r1, infohash, candidates, files)
    /\ IF ~can_request(t.fam, r)
       THEN /\ tasks' = RemoveAt(tasks, i)
            /\ last' = Step("_do_request(UnboundLocalError)", None)
            /\ UNCHANGED <<base, base_wakes>>
       ELSE IF infohash = None
       THEN /\ SetBase(t.fam, t.prio, d.r)
            /\ tasks' = RemoveAt(tasks, i)
            /\ base_wakes' = base_wakes \cup {Wake(t.fam, t.prio, d, d.r, <<>>)}
            /\ last' = Step("_do_request(Queue.Empty)", None)
            /\ UNCHANGED magnet_inflight
       ELSE /\ SetBase(t.fam, t.prio, r2)
            /\ magnet_inflight' = IF f.resolve
                                  THEN magnet_inflight \cup {<<t.prio, infohash>>}
                                  ELSE magnet_inflight
            /\ tasks' \in Scheduled(RemoveAt(tasks, i) \o f.tasks,
                                     <<schedule_task("requester._do_request", t.fam,
                                                     t.prio, Key(None, None), NoFile,
                                                     delay)>>)
            /\ base_wakes' = base_wakes \cup
                   {[Wake(t.fam, t.prio, d, r2, f.tasks) EXCEPT !.raised = raises]}
            /\ last' = Step(IF raises THEN "requester._do_request(do_fetch raised)"
                            ELSE "requester._do_request", infohash)
    /\ UNCHANGED <<coord, tftp, store, hist, now, platform, stopped, overflow,
                   budget>>

\* The scheduled Requester._do_request when do_fetch returns.
BaseDoRequest(i) == _do_request(i, FALSE)

\* MagnetRequester._torrentdef_retrieved.  `save_raises` says whether
\* tdef.save raises inside save_torrent: the error leaves the callback at the
\* save_torrent call, before the lines that follow it.
_torrentdef_retrieved(prio, infohash, save_raises) ==
    LET r == magnet_requesters[prio] IN
    /\ <<prio, infohash>> \in magnet_inflight
    /\ save_raises => ~has_torrent(files, infohash)
    /\ magnet_inflight' = magnet_inflight \ {<<prio, infohash>>}
    /\ IF save_raises
       THEN /\ last' = Step("_torrentdef_retrieved(save_torrent raised)", infohash)
            /\ UNCHANGED <<magnet_requesters, files, torrent_db, writes, tasks>>
       ELSE /\ Saved(infohash, tasks)
            /\ magnet_requesters' =
                 Put(magnet_requesters, prio,
                     [r EXCEPT !.requested_infohashes = @ \ {infohash},
                               !.requests_success = @ + 1])
            /\ last' = StepSave("_torrentdef_retrieved", infohash,
                                has_torrent(files, infohash))
    /\ UNCHANGED <<coord, tftp, torrent_message_requesters, thumbs, hist,
                   now, platform, ext, budget>>

\* MagnetRequester._torrentdef_retrieved when save_torrent returns.
MagnetRetrieved(prio, infohash) == _torrentdef_retrieved(prio, infohash, FALSE)

\* MagnetRequester._torrentdef_failed
MagnetFailed(prio, infohash) ==
    LET r == magnet_requesters[prio] IN
    /\ <<prio, infohash>> \in magnet_inflight
    /\ magnet_inflight' = magnet_inflight \ {<<prio, infohash>>}
    /\ magnet_requesters' =
         Put(magnet_requesters, prio,
             [r EXCEPT !.requested_infohashes = @ \ {infohash},
                       !.requests_failed = @ + 1])
    /\ last' = Step("_torrentdef_failed", infohash)
    /\ UNCHANGED <<coord, tftp, torrent_message_requesters, store, hist, tasks,
                   now, platform, ext, budget>>

(* ------------------------------------------------------------------ *)
(* Callback fan-out                                                     *)
(* ------------------------------------------------------------------ *)
\* The user callback invocations _handleCallback posts for the key.
FanOut(cbs, key, torrent_file_name) ==
    {[key |-> key, cb |-> e.cb, kind |-> e.kind, filename |-> torrent_file_name,
      arg |-> UserCallbackArg(e, torrent_file_name)] : e \in cbs[key]}

\* The removal as it would be if _handleCallback cancelled nothing.
Forget_nothing(requesters, key) == requesters

\* requester.remove_request(key) on every requester that has_requested(key).
Forget(requesters, key) ==
    [p \in DOMAIN requesters |->
        IF has_requested(requesters[p], key)
        THEN remove_request(requesters[p], key) ELSE requesters[p]]

\* The scheduled _handleCallback(key, torrent_file_name).
HandleCallback(i) ==
    LET t == tasks[i]
        key == t.key[1]
        torrent_file_name == t.x
    IN
    /\ t.fn = "_handleCallback"
    /\ CanRun(i)
    /\ tasks' = RemoveAt(tasks, i)
    /\ last' = Step("_handleCallback", key)
    /\ IF key \in DOMAIN torrent_callbacks
       THEN /\ ucb_calls' = ucb_calls \cup FanOut(torrent_callbacks, key, torrent_file_name)
            /\ invoked' = [invoked EXCEPT ![key] =
                             [cb \in Callbacks |->
                                @[cb] + Cardinality({e \in torrent_callbacks[key] : e.cb = cb})]]
            /\ torrent_callbacks' = DelCallbacks(torrent_callbacks, key)
            /\ IF Truthy(torrent_file_name)
               THEN /\ magnet_requesters' = Forget(magnet_requesters, key)
                    /\ UNCHANGED torrent_message_requesters
               ELSE /\ torrent_message_requesters' = Forget(torrent_message_requesters, key)
                    /\ UNCHANGED magnet_requesters
       ELSE UNCHANGED <<ucb_calls, invoked, torrent_callbacks, magnet_requesters,
                        torrent_message_requesters>>
    /\ UNCHANGED <<metadata_callbacks, tftp, magnet_inflight, store, registered,
                   transport_calls, cache_hits, now, platform, ext, budget>>

(* ------------------------------------------------------------------ *)
(* Specifications                                                       *)
(* ------------------------------------------------------------------ *)
Priorities == {0, 1}

\* The reactor runs a scheduled call, or a transport answers.
Internal ==
    \/ \E i \in DOMAIN tasks : TftpDoRequest(i)
    \/ \E i \in DOMAIN tasks : TftpFailover(i)
    \/ \E i \in DOMAIN tasks : BaseDoRequest(i)
    \/ \E i \in DOMAIN tasks : MagnetRequest(i)
    \/ \E i \in DOMAIN tasks : HandleCallback(i)
    \/ \E f \in BagToSet(tftp_inflight) : \E ok \in BOOLEAN : TftpSuccess(f, ok)
    \/ \E f \in BagToSet(tftp_inflight) : TftpFailure(f)
    \/ \E m \in magnet_inflight : MagnetRetrieved(m[1], m[2])
    \/ \E m \in magnet_inflight : MagnetFailed(m[1], m[2])

\* The coordinator under calls on its public interface.
Next ==
    \/ \E h \in Infohashes, p \in Priorities : DownloadTorrentMagnet(h, "cb1", p)
    \/ \E h \in Infohashes, cb \in Callbacks \cup {None}, p \in Priorities :
         DownloadTorrent("c1", h, cb, p)
    \/ \E h \in Infohashes, cb \in Callbacks \cup {None} :
         DownloadTorrentMessage("c1", h, cb, 1)
    \/ \E h \in Infohashes : DownloadMetadata("c1", h, "sp1", "cb1")
    \/ \E h \in Infohashes : NotifyPossibleTorrentInfohash(h)
    \/ \E h \in Infohashes : SaveTorrent(h)
    \/ \E i \in DOMAIN tasks : TftpDoRequest(i)
    \/ \E i \in DOMAIN tasks : BaseDoRequest(i)
    \/ \E i \in DOMAIN tasks : MagnetRequest(i)
    \/ \E i \in DOMAIN tasks : HandleCallback(i)
    \/ \E f \in BagToSet(tftp_inflight) : TftpSuccess(f, TRUE)
    \/ \E f \in BagToSet(tftp_inflight) : TftpFailure(f)
    \/ \E m \in magnet_inflight : MagnetRetrieved(m[1], m[2])
    \/ \E m \in magnet_inflight : MagnetFailed(m[1], m[2])

Spec == Init /\ [][Next]_vars

\* The same coordinator in every configuration and with more inputs: two
\* candidates, callbacks given or not, both priorities, descriptors that fail
\* to parse.
NextWide ==
    \/ \E h \in Infohashes, cb \in Callbacks \cup {None}, p \in Priorities :
         DownloadTorrentMagnet(h, cb, p)
    \/ \E c \in {"c1", "c2"}, h \in Infohashes, cb \in Callbacks \cup {None}, p \in Priorities :
         DownloadTorrent(c, h, cb, p)
    \/ \E c \in {"c1"}, h \in Infohashes, cb \in Callbacks \cup {None}, p \in Priorities :
         DownloadTorrentMessage(c, h, cb, p)
    \/ \E c \in {"c1"}, h \in Infohashes, sp \in Subpaths \cup NestedSubpaths,
          cb \in Callbacks \cup {None} :
         DownloadMetadata(c, h, sp, cb)
    \/ \E h \in Infohashes, sp \in Subpaths \cup NestedSubpaths \cup Directories :
         DeleteMetadata(h, sp)
    \/ \E h \in Infohashes : NotifyPossibleTorrentInfohash(h)
    \/ \E h \in Infohashes : SaveTorrent(h)
    \/ Internal

SpecWide == InitWide /\ [][NextWide]_vars

(* ------------------------------------------------------------------ *)
(* Claims about the coordinator                                         *)
(* ------------------------------------------------------------------ *)
\* The entries registered for (infohash, cb) that have not fired yet.
Waiting(infohash, cb) ==
    IF infohash \in DOMAIN torrent_callbacks
    THEN Cardinality({e \in torrent_callbacks[infohash] : e.cb = cb})
    ELSE 0

\* C1: every descriptor callback registered for an infohash is invoked at most
\* once (the invocations for a callback never exceed the registry entries that
\* were created for it and have left the registry), and right after a
\* _handleCallback(H) run torrent_callbacks has no entry for H.
C1_FanOutAtMostOnce ==
    /\ \A h \in Infohashes, cb \in Callbacks :
         invoked[h][cb] + Waiting(h, cb) <= registered[h][cb]
    /\ last.op = "_handleCallback" => last.h \notin DOMAIN torrent_callbacks

\* C1 witness: a _handleCallback run has just invoked a registered callback,
\* and a second notification for the same infohash is still scheduled.
C1_Witness ==
    /\ last.op = "_handleCallback"
    /\ invoked[last.h]["cb1"] = 1
    /\ \E i \in DOMAIN tasks :
         tasks[i].fn = "_handleCallback" /\ tasks[i].key[1] = last.h

\* C2 (as claimed): after download_torrent(candidate=None, H, cb, priority) the
\* callback cb is registered for H.
C2_MagnetCallbackRegistered ==
    last.op = "download_torrent(None, cb)"
        => /\ last.h \in DOMAIN torrent_callbacks
           /\ \E e \in torrent_callbacks[last.h] : e.cb \in Callbacks

\* C3 (as claimed): when the descriptor of H was on disk at the time
\* download_torrent(candidate, H, cb) was called, download_file is never called
\* for H.
C3_CacheHitNoTransport ==
    \A f \in transport_calls : ~f.hit

\* C4 (as claimed): a descriptor callback fires only on a descriptor
\* acquisition; a thumbnail save_metadata never causes one to be invoked.
C4_DescriptorCallbackOnlyOnAcquisition ==
    \A c \in ucb_calls :
        c.kind \in {"ucb", "lambda"} => c.filename # MetadataDir(c.key)

\* C5 (as claimed): a callback registered by download_torrentmessage(C, H, cb)
\* and fired by a notification without a file name receives the infohash H.
C5_MessageCallbackGetsInfohash ==
    \A c \in ucb_calls :
        (c.kind = "lambda" /\ c.filename = NoFile) => c.arg = <<"infohash", c.key>>

\* C6 (as claimed): after save_metadata fanned out to the thumbnail callbacks
\* of H, metadata_callbacks has no entry for H.
C6_ThumbnailRegistryDrained ==
    last.op = "save_metadata" => last.h \notin DOMAIN metadata_callbacks

\* C7: a save_torrent for an infohash whose descriptor is in the collection
\* directory changes neither the directory nor the database and writes
\* nothing, and no descriptor is written twice.
C7_PersistOnce ==
    [][ /\ (last'.save # "none" /\ last'.h \in files)
            => (files' = files /\ torrent_db' = torrent_db /\ writes' = writes)
        /\ \A h \in Infohashes : writes'[h] <= 1 ]_vars

\* C7 witness: save_torrent ran for an infohash whose descriptor an earlier
\* save_torrent of this run had written.
C7_Witness ==
    /\ last.save = "present"
    /\ writes[last.h] = 1

(* ------------------------------------------------------------------ *)
(* The file-transfer requesters on their own                            *)
(* ------------------------------------------------------------------ *)
InitTftp ==
    /\ InitCommon
    /\ budget = MaxTftpOps
    /\ platform = "linux"
    /\ overflow = Quota(0, 0)
    /\ tasks = check_overflow(0, 0).tasks
    /\ files = {}
    /\ torrent_db = [open |-> TRUE, rows |-> {}, file_names |-> {}]
    /\ magnet_requesters = [p \in {0, 1} |-> Requester("magnet", p)]

\* Requests without callbacks reach the descriptor requester of priority 1
\* and the thumbnail requester; the reactor and the transport do the rest.
NextTftp ==
    \/ \E c \in Candidates, h \in Infohashes : DownloadTorrent(c, h, None, 1)
    \/ \E c \in {"c1", "c2"}, h \in {"h1"}, sp \in NestedSubpaths :
         DownloadMetadata(c, h, sp, None)
    \/ \E h \in {"h1"}, sp \in NestedSubpaths \cup Directories : DeleteMetadata(h, sp)
    \/ \E i \in DOMAIN tasks : TftpDoRequest(i)
    \/ \E i \in DOMAIN tasks : TftpFailover(i)
    \/ \E f \in BagToSet(tftp_inflight) : \E ok \in BOOLEAN : TftpSuccess(f, ok)
    \/ \E f \in BagToSet(tftp_inflight) : TftpFailure(f)

SpecTftp == InitTftp /\ [][NextTftp]_vars

\* Repeated requests for one descriptor, from any of the candidates, at the
\* descriptor requester of priority 1.
InitDup ==
    /\ InitCommon
    /\ budget = MaxDupOps
    /\ platform = "linux"
    /\ overflow = Quota(0, 0)
    /\ tasks = check_overflow(0, 0).tasks
    /\ files = {}
    /\ torrent_db = [open |-> TRUE, rows |-> {}, file_names |-> {}]
    /\ magnet_requesters = [p \in {0, 1} |-> Requester("magnet", p)]

NextDup ==
    \/ \E c \in Candidates : DownloadTorrent(c, "h1", None, 1)
    \/ \E i \in DOMAIN tasks : TftpDoRequest(i)
    \/ \E i \in DOMAIN tasks : TftpFailover(i)
    \/ \E f \in BagToSet(tftp_inflight) : TftpSuccess(f, TRUE)
    \/ \E f \in BagToSet(tftp_inflight) : TftpFailure(f)

SpecDup == InitDup /\ [][NextDup]_vars

\* The file-transfer requesters that exist.
TftpRequesters ==
    {torrent_requesters[p] : p \in DOMAIN torrent_requesters} \cup {metadata_requester}

\* The download_file calls of one requester that the transport has not answered.
InFlightOf(fam, prio) ==
    {f \in BagToSet(tftp_inflight) : f.fam = fam /\ f.prio = prio}

\* C8 (as claimed): a requester has at most one download_file in flight, and
\* the key it was issued for is the head of pending_request_queue until the
\* transport answers.
C8_SingleInFlight ==
    \A f \in BagToSet(tftp_inflight) :
        /\ CopiesIn(f, tftp_inflight) = 1
        /\ InFlightOf(f.fam, f.prio) = {f}
        /\ TftpOf(f.fam, f.prio).pending_request_queue # <<>>
        /\ Head(TftpOf(f.fam, f.prio).pending_request_queue) = f.key

\* C9 (as claimed): for a pending key, the candidates handed to do_fetch are,
\* in order, the first of the distinct candidates add_request recorded for it.
C9_FifoWithinKey ==
    \A r \in TftpRequesters : \A key \in DOMAIN r.fetched :
        IsPrefix(r.fetched[key], r.added[key])

\* C10: in every state of a file-transfer requester a key is pending once
\* and, for every pending key, no candidate occurs twice in its tried sources
\* followed by its untried sources, these hold exactly the distinct candidates
\* add_request was given for the key since it became pending, and no candidate
\* was handed to download_file twice for the key since it became pending.
C10_NoDuplicateCandidates ==
    \A r \in TftpRequesters :
        /\ NoDup(r.pending_request_queue)
        /\ \A key \in Range(r.pending_request_queue) :
              /\ NoDup(r.tried_sources[key] \o r.untried_sources[key])
              /\ r.tried_sources[key] \o r.untried_sources[key] = r.added[key]
              /\ NoDup(r.fetched[key])

(* ------------------------------------------------------------------ *)
(* The base pacing loop under magnet and overlay-message requests      *)
(* ------------------------------------------------------------------ *)
\* register() with DHT collecting on, on either kind of platform; the
\* collection directory is empty or holds one descriptor.
InitMagnet ==
    /\ InitCommon
    /\ budget = MaxMagnetOps
    /\ platform \in {"linux", "darwin"}
    /\ overflow = Quota(0, 0)
    /\ tasks = check_overflow(0, 0).tasks
    /\ files \in {{}, {"h1"}}
    /\ torrent_db = [open |-> TRUE, rows |-> files, file_names |-> files]
    /\ magnet_requesters = [p \in {0, 1} |-> Requester("magnet", p)]

NextMagnet ==
    \/ \E h \in Infohashes, p \in Priorities : DownloadTorrentMagnet(h, None, p)
    \/ \E h \in Infohashes : DownloadTorrentMessage("c1", h, "cb1", 1)
    \/ \E i \in DOMAIN tasks : MagnetRequest(i)
    \/ \E i \in DOMAIN tasks : BaseDoRequest(i)
    \/ \E i \in DOMAIN tasks : HandleCallback(i)
    \/ \E m \in magnet_inflight : MagnetRetrieved(m[1], m[2])
    \/ \E m \in magnet_inflight : MagnetFailed(m[1], m[2])

SpecMagnet == InitMagnet /\ [][NextMagnet]_vars

\* The resolver calls of one magnet requester that have not been answered.
ResolvingOf(prio) == {m \in magnet_inflight : m[1] = prio}

\* A _do_request wake of the requester is scheduled.
WakePending(fam, prio) ==
    \E i \in DOMAIN tasks :
        tasks[i].fn = "requester._do_request" /\ tasks[i].fam = fam /\ tasks[i].prio = prio

\* C11: a magnet requester never has more than MAX_CONCURRENT infohashes in
\* requested_infohashes, nor more than MAX_CONCURRENT unanswered resolver
\* calls.
C11_MagnetConcurrencyCap ==
    \A p \in DOMAIN magnet_requesters :
        /\ Cardinality(magnet_requesters[p].requested_infohashes)
              <= MAX_CONCURRENT(magnet_requesters[p])
        /\ Cardinality(ResolvingOf(p)) <= MAX_CONCURRENT(magnet_requesters[p])

\* C11 witness: a magnet requester is at its cap with a resolution in flight
\* while another infohash waits in its queue.
C11_Witness ==
    \E p \in DOMAIN magnet_requesters :
        /\ Cardinality(magnet_requesters[p].requested_infohashes)
              = MAX_CONCURRENT(magnet_requesters[p])
        /\ ResolvingOf(p) # {}
        /\ \E i \in DOMAIN magnet_requesters[p].queue :
             magnet_requesters[p].queue[i][1] \notin magnet_requesters[p].requested_infohashes

\* C18 (as claimed): the base loop of a magnet requester never stops while its
\* queue is not empty: a wake that finds the requester saturated re-arms, so a
\* requester with queued entries always has a wake scheduled.
C18_SaturatedWakeRearms ==
    \A p \in DOMAIN magnet_requesters :
        magnet_requesters[p].queue # <<>> => WakePending("magnet", p)

(* ------------------------------------------------------------------ *)
(* More claims about the file-transfer requesters (SpecTftp)           *)
(* ------------------------------------------------------------------ *)
\* The scheduled calls of one file-transfer requester with the given names.
TftpTasks(fam, prio, fns) ==
    {i \in DOMAIN tasks : tasks[i].fn \in fns /\ tasks[i].fam = fam /\ tasks[i].prio = prio}

\* The file-transfer requesters that exist, by family and priority.
TftpIds ==
    {<<"torrent", p>> : p \in DOMAIN torrent_requesters} \cup {<<"metadata", 0>>}

\* C12 (as claimed): an add_request that arrives while a wake of the requester
\* is scheduled causes no second wake, so a requester with a positive interval
\* (REQUEST_INTERVAL * priority, priority >= 1) never has two _do_request wakes
\* scheduled at once.
C12_NoSecondWake ==
    \A id \in TftpIds :
        id[2] >= 1 => Cardinality(TftpTasks(id[1], id[2], {"tftp._do_request"})) <= 1

\* C17 (as claimed): a file-transfer requester never stalls with a non-empty
\* pending queue: while a key is pending, a download_file call of the requester
\* is unanswered or a wake or a next-candidate fetch of it is scheduled.
C17_NeverStalls ==
    \A id \in TftpIds :
        TftpOf(id[1], id[2]).pending_request_queue # <<>>
            => \/ InFlightOf(id[1], id[2]) # {}
               \/ TftpTasks(id[1], id[2], {"tftp._do_request", "tftp.do_fetch"}) # {}

\* C19: in a file-transfer requester the keys of untried_sources and the keys
\* of tried_sources are exactly the keys in pending_request_queue, and no key
\* is in the queue twice.
C19_PendingIffSources ==
    \A r \in TftpRequesters :
        /\ DOMAIN r.untried_sources = Range(r.pending_request_queue)
        /\ DOMAIN r.tried_sources = Range(r.pending_request_queue)
        /\ Cardinality(Range(r.pending_request_queue)) = Len(r.pending_request_queue)

\* C19 witness: the failure callback has just dropped the head key of a
\* requester whose queue holds another key, or the success callback has.
C19_Witness ==
    /\ last.op \in {"_tftp_failure_callback(clear)", "_tftp_success_callback"}
    /\ \E r \in TftpRequesters :
          /\ r.requests_success + r.requests_failed >= 1
          /\ r.pending_request_queue # <<>>
          /\ Key(last.h, None) \notin Range(r.pending_request_queue)

(* ------------------------------------------------------------------ *)
(* shutdown()                                                           *)
(* ------------------------------------------------------------------ *)
\* shutdown(): cancel_all_pending_tasks() cancels every registered call.  The
\* transport's unanswered download_file calls are not the coordinator's.
Shutdown ==
    /\ stopped' = TRUE
    /\ tasks' = <<>>
    /\ last' = Step("shutdown", None)
    /\ UNCHANGED <<coord, tftp, base, store, hist, now, platform, overflow,
                   base_wakes, budget>>

\* The file-transfer requesters with a shutdown at any moment; the environment
\* makes no request after it shut the coordinator down.
NextShutdown ==
    \/ ~stopped /\ \E c \in {"c1", "c2"}, h \in Infohashes : DownloadTorrent(c, h, None, 1)
    \/ ~stopped /\ \E c \in {"c1"}, h \in {"h1"}, sp \in Subpaths :
                     DownloadMetadata(c, h, sp, "cb1")
    \/ Shutdown
    \/ \E i \in DOMAIN tasks : TftpDoRequest(i)
    \/ \E i \in DOMAIN tasks : TftpFailover(i)
    \/ \E i \in DOMAIN tasks : HandleCallback(i)
    \/ \E f \in BagToSet(tftp_inflight) : \E ok \in BOOLEAN : TftpSuccess(f, ok)
    \/ \E f \in BagToSet(tftp_inflight) : TftpFailure(f)

SpecShutdown == InitTftp /\ [][NextShutdown]_vars

\* C13 (as claimed): once shutdown() ran, no scheduled call fires and a
\* transport callback that arrives is a no-op: no step changes the registries,
\* a requester, the collection directory or the database, or schedules a call.
C13_ShutdownQuiescent ==
    [][ stopped => /\ coord' = coord
                   /\ torrent_requesters' = torrent_requesters
                   /\ metadata_requester' = metadata_requester
                   /\ store' = store
                   /\ tasks' = tasks ]_vars

(* ------------------------------------------------------------------ *)
(* Deadlines in the base pacing loop                                    *)
(* ------------------------------------------------------------------ *)
\* requester.add_request(infohash, candidate, timeout) on an existing base
\* requester; the deadline is timeout + time().
AddRequest(fam, prio, infohash, candidate, timeout) ==
    LET r == BaseOf(fam, prio) IN
    /\ budget > 0
    /\ prio \in DOMAIN (IF fam = "magnet" THEN magnet_requesters
                        ELSE torrent_message_requesters)
    /\ budget' = budget - 1
    /\ SetBase(fam, prio, add_request(r, infohash, candidate, timeout + now))
    /\ tasks' \in Scheduled(tasks, add_request_tasks(fam, r))
    /\ last' = Step("add_request(timeout)", infohash)
    /\ UNCHANGED <<coord, tftp, magnet_inflight, store, hist, now, platform, ext>>

\* Time passes.
Tick ==
    /\ now < MaxTime
    /\ now' = now + 1
    /\ UNCHANGED <<coord, tftp, base, store, hist, tasks, platform, ext, budget, last>>

InitDeadline ==
    /\ InitCommon
    /\ budget = MaxDeadlineOps
    /\ platform = "linux"
    /\ overflow = Quota(0, 0)
    /\ tasks = check_overflow(0, 0).tasks
    /\ files = {}
    /\ torrent_db = [open |-> TRUE, rows |-> {}, file_names |-> {}]
    /\ magnet_requesters = [p \in {0, 1} |-> Requester("magnet", p)]

NextDeadline ==
    \/ \E h \in Infohashes : DownloadTorrentMessage("c1", h, "cb1", 1)
    \/ \E h \in Infohashes, timeout \in {0, 1} : AddRequest("message", 1, h, "c2", timeout)
    \/ \E h \in Infohashes, timeout \in {0, 1} : AddRequest("magnet", 0, h, None, timeout)
    \/ Tick
    \/ \E i \in DOMAIN tasks : BaseDoRequest(i)

SpecDeadline == InitDeadline /\ [][NextDeadline]_vars

\* C14: a wake of the base loop makes no do_fetch for an entry whose deadline
\* has passed; an infohash it drops as past its deadline is not the one it
\* fetches, is not tracked when the wake ends and gets no callback fan-out
\* scheduled by the wake.
C14_DeadlineDrop ==
    \A w \in base_wakes :
        /\ w.h # None => (w.at <= w.deadline /\ w.h \notin w.dropped)
        /\ w.dropped \cap w.tracked = {}
        /\ w.dropped \cap w.notified = {}

\* C14 witness: one wake dropped an infohash whose deadline had passed and
\* then fetched another whose deadline had not.
C14_Witness ==
    \E w \in base_wakes : w.dropped # {} /\ w.h # None /\ w.deadline < sys_maxsize

(* ------------------------------------------------------------------ *)
(* Quota enforcement: __check_overflow                                  *)
(* ------------------------------------------------------------------ *)
\* A deletion chain is under way.
Cleaning == \E i \in DOMAIN tasks : tasks[i].fn = "clean_until_done"

\* set_max_num_torrents
SetMaxNumTorrents(max_num_torrents) ==
    /\ budget > 0
    /\ budget' = budget - 1
    /\ overflow' = [overflow EXCEPT !.max_num_torrents = max_num_torrents]
    /\ last' = Step("set_max_num_torrents", None)
    /\ UNCHANGED <<coord, tftp, base, store, hist, tasks, now, platform, stopped,
                   base_wakes>>

\* torrent_overflow_check fired by the LoopingCall, every 30 minutes after
\* register(); a deletion chain of an earlier check may still be under way.
TorrentOverflowCheck ==
    LET c == torrent_overflow_check(overflow)
        n == num_delete(overflow.collected, overflow.max_num_torrents)
        started == overflow.collected > overflow.max_num_torrents
    IN
    /\ budget > 0
    /\ budget' = budget - 1
    /\ overflow' = [c.overflow EXCEPT
                      !.to_delete = IF started THEN n ELSE 0,
                      !.deletions_per_step = IF started THEN deletions_per_step(n) ELSE 0]
    /\ tasks' = tasks \o c.tasks
    /\ last' = Step("torrent_overflow_check", None)
    /\ UNCHANGED <<coord, tftp, base, store, hist, now, platform, stopped, base_wakes>>

\* The scheduled clean_until_done(num_delete, deletions_per_step).
CleanUntilDone(i) ==
    LET t == tasks[i]
        c == clean_until_done(overflow, t.x[1], t.x[2])
    IN
    /\ t.fn = "clean_until_done"
    /\ CanRun(i)
    /\ overflow' = c.overflow
    /\ tasks' = RemoveAt(tasks, i) \o c.tasks
    /\ last' = Step("clean_until_done", None)
    /\ UNCHANGED <<coord, tftp, base, store, hist, now, platform, stopped, base_wakes,
                   budget>>

\* register(dispersy, session, max_num_torrents) with the megacache on, for a
\* database of any size up to MaxCollected and the sizes of the spec's examples;
\* the long chains of the examples run with no further call from outside.
InitQuota ==
    /\ InitCommon
    /\ platform = "linux"
    /\ \E collected \in (0..MaxCollected) \cup {1200, 6000},
          max_num_torrents \in (0..MaxQuota) \cup {1000} :
         /\ overflow = Quota(collected, max_num_torrents)
         /\ tasks = check_overflow(collected, max_num_torrents).tasks
         /\ budget = IF collected > MaxCollected THEN 0 ELSE MaxChecks
    /\ files = {}
    /\ torrent_db = [open |-> TRUE, rows |-> {}, file_names |-> {}]
    /\ magnet_requesters = [p \in {0, 1} |-> Requester("magnet", p)]

NextQuota ==
    \/ TorrentOverflowCheck
    \/ \E max_num_torrents \in {0, MaxQuota} : SetMaxNumTorrents(max_num_torrents)
    \/ \E i \in DOMAIN tasks : CleanUntilDone(i)

SpecQuota == InitQuota /\ [][NextQuota]_vars

RECURSIVE Sum(_)
Sum(s) == IF s = <<>> THEN 0 ELSE Head(s) + Sum(Tail(s))

\* The clean_until_done(num_delete, deletions_per_step) call a chain has
\* pending.
CleanCall(n, per_step) ==
    [fn |-> "clean_until_done", fam |-> "coordinator", prio |-> 0,
     key |-> Key(None, None), x |-> <<n, per_step>>, delay |-> 50]

\* A check that found num_torrents above the quota and is to delete n has
\* made one freeSpace call, positive, at most n and at most the chunk
\* max(25, n / 180), and left the rest of n to a scheduled call.
ChainStarted(n, calls, scheduled) ==
    /\ Len(calls) = 1
    /\ calls[1] > 0 /\ calls[1] <= n /\ calls[1] <= Max(25, n \div 180)
    /\ scheduled = <<CleanCall(n - calls[1], Max(25, n \div 180))>>

\* C15: a check that finds num_torrents > max_num_torrents starts a chain for
\* num_delete descriptors with one freeSpace call and one scheduled step, and
\* a check that finds num_torrents <= max_num_torrents calls and schedules
\* nothing; every step of a chain that has n > 0 left makes one freeSpace
\* call with a positive argument, at most n and at most the chunk, and
\* schedules the step for the rest, and the step with nothing left calls and
\* schedules nothing: the arguments of a chain sum to exactly num_delete and
\* the chain ends.  With max 1000 and 1200 collected at register() the chain is
\* ten calls of freeSpace(25).
C15_QuotaConvergence ==
    [][ /\ last.op = "register" =>
             IF overflow.num_torrents > overflow.max_num_torrents
             THEN ChainStarted(num_delete(overflow.num_torrents,
                                          overflow.max_num_torrents),
                               overflow.calls, tasks)
             ELSE overflow.calls = <<>> /\ tasks = <<>>
        /\ last'.op = "torrent_overflow_check" =>
             IF overflow'.num_torrents > overflow.max_num_torrents
             THEN ChainStarted(overflow'.to_delete, overflow'.calls,
                               SubSeq(tasks', Len(tasks) + 1, Len(tasks')))
             ELSE overflow'.calls = <<>> /\ tasks' = tasks
        /\ \A i \in DOMAIN tasks :
             (   last'.op = "clean_until_done"
              /\ tasks[i].fn = "clean_until_done"
              /\ SubSeq(tasks', 1, Len(tasks) - 1) = RemoveAt(tasks, i))
             => LET n == tasks[i].x[1]
                    per_step == tasks[i].x[2]
                    to_remove_now == overflow'.calls[Len(overflow'.calls)]
                IN IF n > 0
                   THEN /\ overflow'.calls = Append(overflow.calls, to_remove_now)
                        /\ to_remove_now > 0
                        /\ to_remove_now <= n
                        /\ to_remove_now <= per_step
                        /\ tasks' = Append(RemoveAt(tasks, i),
                                           CleanCall(n - to_remove_now, per_step))
                   ELSE overflow' = overflow /\ tasks' = RemoveAt(tasks, i)
        /\ (   overflow'.num_torrents = 1200 /\ overflow'.max_num_torrents = 1000
            /\ overflow'.to_delete = 0 /\ ~Cleaning')
             => overflow'.calls = [k \in 1..10 |-> 25]
      ]_vars

\* C15 witness: a chain whose last call deleted less than a chunk has ended.
C15_Witness ==
    /\ ~Cleaning
    /\ last.op = "clean_until_done"
    /\ Len(overflow.calls) >= 2
    /\ overflow.calls[Len(overflow.calls)] < 25

\* The number of descriptors the last overflow check scheduled for deletion:
\* after register() the one freeSpace call made and what the scheduled step
\* has left, afterwards the num_delete of the check.
ScheduledForDeletion ==
    IF last.op = "register" THEN overflow.calls[1] + tasks[1].x[1]
    ELSE overflow.to_delete

\* C16 (as claimed): an overflow check that finds num_torrents >
\* max_num_torrents schedules num_torrents - floor(0.95 * max_num_torrents)
\* descriptors for deletion.
C16_NumDeleteFloor ==
    (   last.op \in {"register", "torrent_overflow_check"}
     /\ overflow.num_torrents > overflow.max_num_torrents)
        => ScheduledForDeletion
             = overflow.num_torrents - ((19 * overflow.max_num_torrents) \div 20)

(* ------------------------------------------------------------------ *)
(* Requester selection in download_torrent                              *)
(* ------------------------------------------------------------------ *)
InitSelect ==
    /\ InitCommon
    /\ budget = MaxSelectOps
    /\ platform = "linux"
    /\ overflow = Quota(0, 0)
    /\ tasks = check_overflow(0, 0).tasks
    /\ files = {}
    /\ torrent_db = [open |-> TRUE, rows |-> {}, file_names |-> {}]
    /\ magnet_requesters = [p \in {0, 1} |-> Requester("magnet", p)]

\* download_torrent with a candidate at priority 0 or 1, the wakes and the
\* transport's answers.
NextSelect ==
    \/ \E c \in {"c1", "c2"}, h \in Infohashes, p \in Priorities :
         DownloadTorrent(c, h, None, p)
    \/ \E i \in DOMAIN tasks : TftpDoRequest(i)
    \/ \E i \in DOMAIN tasks : TftpFailover(i)
    \/ \E f \in BagToSet(tftp_inflight) : TftpSuccess(f, TRUE)
    \/ \E f \in BagToSet(tftp_inflight) : TftpFailure(f)

SpecSelect == InitSelect /\ [][NextSelect]_vars

\* The descriptor requester of priority q has the infohash pending.
Tracks(requesters, q, infohash) ==
    q \in DOMAIN requesters /\ Tftp_has_requested(requesters[q], Key(infohash, None))

\* C20: a download_torrent(C, H, priority=p) step changes only the requester
\* the claim names, which is the lowest requester in 0..p that had H pending
\* if there was one and else the requester at p (created if it did not exist),
\* and H is pending there afterwards; no requester above p changes, and H
\* becomes pending on no other requester in 0..p.
C20_RequesterSelection ==
    [][ budget' < budget =>
          LET h == last'.h
              p == last'.priority
              had == {q \in 0..p : Tracks(torrent_requesters, q, h)}
              target == IF had # {} THEN CHOOSE q \in had : \A o \in had : q <= o ELSE p
              changed == {q \in DOMAIN torrent_requesters' :
                             \/ q \notin DOMAIN torrent_requesters
                             \/ torrent_requesters'[q] # torrent_requesters[q]}
          IN /\ changed \subseteq {target}
             /\ Tracks(torrent_requesters', target, h)
             /\ \A q \in changed : q <= p
             /\ \A q \in 0..p :
                  (Tracks(torrent_requesters', q, h) /\ ~Tracks(torrent_requesters, q, h))
                      => (q = target /\ had = {})
      ]_vars

\* C20 witness: a download_torrent at priority 1 found the infohash pending at
\* priority 0 and added its candidate there, while the requester of priority 1
\* exists and does not have the infohash pending.
C20_Witness ==
    /\ last.op = "download_torrent"
    /\ last.priority = 1
    /\ Tracks(torrent_requesters, 0, last.h)
    /\ Len(torrent_requesters[0].added[Key(last.h, None)]) = 2
    /\ 1 \in DOMAIN torrent_requesters
    /\ ~Tracks(torrent_requesters, 1, last.h)

(* ------------------------------------------------------------------ *)
(* Priorities outside 0..1                                              *)
(* ------------------------------------------------------------------ *)
InitClamp ==
    /\ InitCommon
    /\ budget = MaxClampOps
    /\ platform = "linux"
    /\ overflow = Quota(0, 0)
    /\ tasks = check_overflow(0, 0).tasks
    /\ files = {}
    /\ torrent_db = [open |-> TRUE, rows |-> {}, file_names |-> {}]
    /\ magnet_requesters = [p \in {0, 1} |-> Requester("magnet", p)]

\* download_torrent with a candidate and any priority from -1 to 2.
NextClamp ==
    \/ \E c \in {"c1", "c2"}, h \in Infohashes, p \in -1..2 :
         DownloadTorrent(c, h, None, p)
    \/ \E i \in DOMAIN tasks : TftpDoRequest(i)
    \/ \E i \in DOMAIN tasks : TftpFailover(i)
    \/ \E f \in BagToSet(tftp_inflight) : TftpSuccess(f, TRUE)
    \/ \E f \in BagToSet(tftp_inflight) : TftpFailure(f)

SpecClamp == InitClamp /\ [][NextClamp]_vars

\* C21 (as claimed): whatever priority download_torrent is given, the keys of
\* torrent_requesters are among 0 and 1 and every descriptor requester has
\* priority 0 or 1.
C21_PriorityClamp ==
    /\ DOMAIN torrent_requesters \subseteq {0, 1}
    /\ \A p \in DOMAIN torrent_requesters : torrent_requesters[p].priority \in {0, 1}

(* ------------------------------------------------------------------ *)
(* Cancellation by the callback fan-out                                 *)
(* ------------------------------------------------------------------ *)
InitFanOut ==
    /\ InitCommon
    /\ budget = MaxFanOutOps
    /\ platform = "linux"
    /\ overflow = Quota(0, 0)
    /\ tasks = check_overflow(0, 0).tasks
    /\ files = {}
    /\ torrent_db = [open |-> TRUE, rows |-> {}, file_names |-> {}]
    /\ magnet_requesters = [p \in {0, 1} |-> Requester("magnet", p)]

\* Magnet and overlay-message requests, with notifications that carry a file
\* name (save_torrent) and that carry none (notify_possible_torrent_infohash).
NextFanOut ==
    \/ \E h \in Infohashes : DownloadTorrentMagnet(h, None, 0)
    \/ \E h \in Infohashes : DownloadTorrentMessage("c1", h, "cb1", 1)
    \/ \E h \in Infohashes : NotifyPossibleTorrentInfohash(h)
    \/ \E h \in Infohashes : SaveTorrent(h)
    \/ \E i \in DOMAIN tasks : MagnetRequest(i)
    \/ \E i \in DOMAIN tasks : BaseDoRequest(i)
    \/ \E i \in DOMAIN tasks : HandleCallback(i)
    \/ \E m \in magnet_inflight : MagnetRetrieved(m[1], m[2])
    \/ \E m \in magnet_inflight : MagnetFailed(m[1], m[2])

SpecFanOut == InitFanOut /\ [][NextFanOut]_vars

\* C22: when a _handleCallback(K, filename) run fans out the callbacks of K,
\* then right after it no magnet requester tracks K if the file name is
\* non-empty, and no overlay-message requester tracks K if it is empty; and a
\* wake of the base loop calls do_fetch only for a key its requester tracked
\* when the wake began, so a queue entry of a forgotten key is passed over.
C22_FanOutCancels ==
    [][ /\ \A i \in DOMAIN tasks :
             (   tasks[i].fn = "_handleCallback"
              /\ tasks' = RemoveAt(tasks, i)
              /\ last'.op = "_handleCallback"
              /\ tasks[i].key[1] \in DOMAIN torrent_callbacks)
             => IF Truthy(tasks[i].x)
                THEN \A p \in DOMAIN magnet_requesters' :
                        ~has_requested(magnet_requesters'[p], tasks[i].key[1])
                ELSE \A p \in DOMAIN torrent_message_requesters' :
                        ~has_requested(torrent_message_requesters'[p], tasks[i].key[1])
        /\ \A p \in DOMAIN magnet_requesters :
             (   last'.op = "requester._do_request"
              /\ magnet_requesters'[p].queue # magnet_requesters[p].queue)
             => has_requested(magnet_requesters[p], last'.h)
        /\ \A p \in DOMAIN torrent_message_requesters :
             (   last'.op = "requester._do_request"
              /\ torrent_message_requesters'[p].queue # torrent_message_requesters[p].queue)
             => has_requested(torrent_message_requesters[p], last'.h)
      ]_vars

\* C22 witness: a callback was fanned out, and a magnet requester that never
\* made a request has woken on a queue whose only entries were of forgotten
\* keys: it fetched nothing and its queue is empty.
C22_Witness ==
    /\ \E h \in Infohashes : invoked[h]["cb1"] >= 1
    /\ \E w \in base_wakes :
         /\ w.fam = "magnet"
         /\ w.h = None
         /\ magnet_requesters[w.prio].requests_made = 0
         /\ magnet_requesters[w.prio].queue = <<>>

(* ------------------------------------------------------------------ *)
(* do_fetch raising in the base pacing loop                             *)
(* ------------------------------------------------------------------ *)
\* Magnet and overlay-message requests where a do_fetch may raise.
NextRaise ==
    \/ \E h \in Infohashes, p \in Priorities : DownloadTorrentMagnet(h, None, p)
    \/ \E h \in Infohashes : DownloadTorrentMessage("c1", h, "cb1", 1)
    \/ \E i \in DOMAIN tasks : MagnetRequest(i)
    \/ \E i \in DOMAIN tasks, raises \in BOOLEAN : _do_request(i, raises)
    \/ \E i \in DOMAIN tasks : HandleCallback(i)
    \/ \E m \in magnet_inflight : MagnetRetrieved(m[1], m[2])
    \/ \E m \in magnet_inflight : MagnetFailed(m[1], m[2])

SpecRaise == InitMagnet /\ [][NextRaise]_vars

\* The live entries of a requester's queue: those of tracked infohashes.
LiveQueued(r) == {k \in DOMAIN r.queue : has_requested(r, r.queue[k][1])}

\* C23 (as claimed): when do_fetch raises in a wake, requests_made stays as it
\* was and the wake is followed by a new scheduled wake; and a requester in
\* which a do_fetch has raised goes on serving its queue: while live entries
\* are queued behind, a wake of the requester is scheduled.
C23_ErrorIsolation ==
    [][ /\ last'.op = "requester._do_request(do_fetch raised)" =>
             \A fam \in {"magnet", "message"} :
                 \A p \in DOMAIN (IF fam = "magnet" THEN magnet_requesters
                                  ELSE torrent_message_requesters) :
                    /\ BaseOf(fam, p)'.requests_made = BaseOf(fam, p).requests_made
                    /\ BaseOf(fam, p)' # BaseOf(fam, p) => WakePending(fam, p)'
        /\ \A w \in base_wakes' :
             (w.raised /\ LiveQueued(BaseOf(w.fam, w.prio)') # {})
                 => WakePending(w.fam, w.prio)'
      ]_vars

(* ------------------------------------------------------------------ *)
(* Requests with and without a deadline for one infohash                *)
(* ------------------------------------------------------------------ *)
\* The deadline specification with magnet requests, which carry no timeout.
NextIsolation ==
    \/ NextDeadline
    \/ \E h \in Infohashes : DownloadTorrentMagnet(h, None, 0)
    \/ \E i \in DOMAIN tasks : MagnetRequest(i)

SpecIsolation == InitDeadline /\ [][NextIsolation]_vars

\* The infohashes the requester stops tracking in this step although its
\* queue held an entry without a timeout for them.
Untracked(r_before, r_after) ==
    {K \in DOMAIN r_before.download_sources \ DOMAIN r_after.download_sources :
        <<K, sys_maxsize>> \in Range(r_before.queue)}

\* C24 (as claimed): a request added without a timeout is not dropped because
\* of the deadline of another request for the same infohash: a base requester
\* whose queue holds an entry without a timeout for K stops tracking K only in
\* the wake that calls do_fetch for K (no fan-out cancels here).
C24_DeadlineIsolation ==
    [][ /\ \A p \in DOMAIN magnet_requesters :
             \A K \in Untracked(magnet_requesters[p], magnet_requesters'[p]) :
                 last'.op = "requester._do_request" /\ last'.h = K
        /\ \A p \in DOMAIN torrent_message_requesters :
             \A K \in Untracked(torrent_message_requesters[p],
                                torrent_message_requesters'[p]) :
                 last'.op = "requester._do_request" /\ last'.h = K
      ]_vars

(* ------------------------------------------------------------------ *)
(* save_torrent raising in the resolver's success callback              *)
(* ------------------------------------------------------------------ *)
\* Magnet and overlay-message requests where writing a resolved descriptor
\* may fail.
NextLeak ==
    \/ \E h \in Infohashes, p \in Priorities : DownloadTorrentMagnet(h, None, p)
    \/ \E h \in Infohashes : DownloadTorrentMessage("c1", h, "cb1", 1)
    \/ \E i \in DOMAIN tasks : MagnetRequest(i)
    \/ \E i \in DOMAIN tasks : BaseDoRequest(i)
    \/ \E i \in DOMAIN tasks : HandleCallback(i)
    \/ \E m \in magnet_inflight, save_raises \in BOOLEAN :
         _torrentdef_retrieved(m[1], m[2], save_raises)
    \/ \E m \in magnet_inflight : MagnetFailed(m[1], m[2])

SpecLeak == InitMagnet /\ [][NextLeak]_vars

\* C25 (as claimed): an in-flight mark does not leak.  Only the resolver's
\* callbacks remove a mark that outlives do_fetch, so every infohash in a
\* magnet requester's requested_infohashes has a resolver call of that
\* requester still unanswered, whose success or timeout callback will remove
\* it; this holds also after a success callback in which save_torrent failed.
C25_MarksDoNotLeak ==
    \A p \in DOMAIN magnet_requesters :
        \A h \in magnet_requesters[p].requested_infohashes :
            <<p, h>> \in magnet_inflight
====
